---- MODULE Spec2Model ----
(***************************************************************************)
(* Theme selection and persistence of the portfolio site: the pre-hydration *)
(* script of app/layout.tsx and the two ThemeProvider controllers (the one  *)
(* with a default theme and the one without).  One page view at a time,     *)
(* over a cookie jar and a localStorage slot that outlive the page view.    *)
(*                                                                         *)
(* Strings that the code takes apart are sequences of tokens: a class name  *)
(* is <<"theme-", mode, "-", variant>>, a JSON text is the sequence of its  *)
(* key/value pairs, a cookie value is the URI-encoded JSON text.            *)
(***************************************************************************)
EXTENDS Integers, Sequences, FiniteSets, TLC

VARIABLES
    build,        \* which ThemeProvider is mounted: "default" or "plain"
    pc,           \* position in the page view: fresh, resolved, effect, idle
    root,         \* document.documentElement.classList, as a set of class names
    cookie,       \* the site-theme cookie in the jar: <<>> or <<value>>
    storage,      \* the localStorage item site-theme: <<>> or <<text>>
    lsMode,       \* localStorage: "ok", "readonly" (setItem throws), "blocked" (every access throws)
    cookiesOn,    \* FALSE: document.cookie reads '' and ignores writes
    mode,         \* controller state
    variant,      \* controller state
    isDefault,    \* controller state (constantly FALSE in the plain build)
    prevRef,      \* prevRef.current: NullVal or an object {mode, variant}
    hour,         \* new Date().getHours() as read by the mode initializer: <<>> or <<h>>
    osDark,       \* matchMedia outcome as read by the variant initializer, or Unread
    uncaught,     \* TRUE once an exception has escaped the script or the component
    lastOp,       \* the operation that produced this state
    entered,      \* history: what held when default was entered: {} or {record}
    before,       \* history: controller state when the page was reloaded: {} or {record}
    tabs,         \* two open tabs on the same cookie and storage: tab |-> its controller
    settled       \* history: the tab and state of the last effect to finish its writes
                  \* with no write since: {} or {record}

vars == <<build, pc, root, cookie, storage, lsMode, cookiesOn, mode, variant,
          isDefault, prevRef, hour, osDark, uncaught, lastOp, entered, before,
          tabs, settled>>

----------------------------------------------------------------------------
(* JavaScript values *)

Undef == "undefined"
Unread == "unread"
Unmounted == "unmounted"

\* A value JSON.parse or a read helper yields: an object with the keys mode
\* and variant (Undef for a key that is not there), null, or a thrown error.
Obj(m, v) == [kind |-> "object", mode |-> m, variant |-> v]
NullVal == [kind |-> "null", mode |-> Undef, variant |-> Undef]
Thrown == [kind |-> "throw", mode |-> Undef, variant |-> Undef]

\* JS truthiness, of a string or undefined and of a parsed value
Truthy(x) == x \notin {Undef, ""}
TruthyVal(val) == val.kind = "object"

LS_KEY == "site-theme"
DAY_START == 6
DAY_END == 19

Hours == 0 .. 23
OSSignals == {"dark", "light", "unavailable"}

----------------------------------------------------------------------------
(* JSON texts and cookie values *)

\* A text JSON.parse rejects
Malformed == << <<"{oops", "">> >>

\* Faulty variant: JSON.stringify of the mode alone
JSONStringifyModeOnly(obj) ==
    IF obj.mode = Undef THEN <<>> ELSE << <<"mode", obj.mode>> >>

\* JSON.stringify of an object with the keys mode and variant: a key whose
\* value is undefined is left out.
JSONStringify(obj) ==
    (IF obj.mode = Undef THEN <<>> ELSE << <<"mode", obj.mode>> >>)
    \o (IF obj.variant = Undef THEN <<>> ELSE << <<"variant", obj.variant>> >>)

Lookup(text, key) ==
    IF \E i \in 1 .. Len(text) : text[i][1] = key
    THEN text[CHOOSE i \in 1 .. Len(text) : text[i][1] = key][2]
    ELSE Undef

\* JSON.parse: throws on a text that is not JSON, else the object read
JSONParse(text) ==
    IF text = Malformed THEN Thrown
    ELSE Obj(Lookup(text, "mode"), Lookup(text, "variant"))

encodeURIComponent(text) == <<"uri", text>>
decodeURIComponent(val) == val[2]

\* The string document.cookie returns, as its list of name=value entries
ForeignCookie == <<"_ga", encodeURIComponent(<< <<"GA1", "">> >>)>>
DocumentCookie(jar, on) ==
    IF ~on THEN <<>>
    ELSE <<ForeignCookie>> \o (IF jar = <<>> THEN <<>> ELSE << <<LS_KEY, jar[1]>> >>)

\* cookies.find(c => c.startsWith('site-theme=')): <<>> or <<the first such entry>>
FindThemeCookie(cookies) ==
    IF \E i \in 1 .. Len(cookies) : cookies[i][1] = LS_KEY
    THEN << cookies[CHOOSE i \in 1 .. Len(cookies) :
                       /\ cookies[i][1] = LS_KEY
                       /\ \A j \in 1 .. (i - 1) : cookies[j][1] # LS_KEY] >>
    ELSE <<>>

\* localStorage.getItem('site-theme'): throws when storage is blocked
GetItem(ls, lsm) ==
    IF lsm = "blocked" THEN [threw |-> TRUE, raw |-> <<>>]
    ELSE [threw |-> FALSE, raw |-> ls]

\* localStorage.setItem('site-theme', text) inside try/catch: the item afterwards
SetItem(ls, lsm, text) == IF lsm = "ok" THEN <<text>> ELSE ls

\* document.cookie = 'site-theme=<val>; path=/; max-age=...; samesite=lax'
SetCookie(jar, on, val) == IF on THEN <<val>> ELSE jar

----------------------------------------------------------------------------
(* Class names *)

ThemePrefix == "theme-"
ThemeClass(m, v) == <<ThemePrefix, m, "-", v>>
ThemeDefault == <<ThemePrefix, "default">>
OtherClass == <<"js-enabled">>

StartsWithTheme(c) == Len(c) >= 1 /\ c[1] = ThemePrefix
ThemeClassesOf(classes) == {c \in classes : StartsWithTheme(c)}

----------------------------------------------------------------------------
(* The pre-hydration script of app/layout.tsx *)

\* Faulty variant: the cookie step without its inner try/catch
CookieStepNoInnerCatch(jar, on) ==
    LET themeCookie == FindThemeCookie(DocumentCookie(jar, on))
    IN  IF themeCookie = <<>> THEN [threw |-> FALSE, cls |-> <<>>]
        ELSE LET parsed == JSONParse(decodeURIComponent(themeCookie[1][2]))
             IN  IF parsed.kind = "throw" THEN [threw |-> TRUE, cls |-> <<>>]
                 ELSE IF Truthy(parsed.mode) /\ Truthy(parsed.variant)
                      THEN [threw |-> FALSE,
                            cls |-> <<ThemeClass(parsed.mode, parsed.variant)>>]
                      ELSE [threw |-> FALSE, cls |-> <<>>]

\* Cookie step: cls is <<>> when it falls through, <<class>> when it adds
\* one; the inner catch keeps a failed decode or parse from leaving the step
CookieStep(jar, on) ==
    LET themeCookie == FindThemeCookie(DocumentCookie(jar, on))
    IN  IF themeCookie = <<>> THEN [threw |-> FALSE, cls |-> <<>>]
        ELSE LET parsed == JSONParse(decodeURIComponent(themeCookie[1][2]))
             IN  IF parsed.kind = "throw" THEN [threw |-> FALSE, cls |-> <<>>]
                 ELSE IF Truthy(parsed.mode) /\ Truthy(parsed.variant)
                      THEN [threw |-> FALSE,
                            cls |-> <<ThemeClass(parsed.mode, parsed.variant)>>]
                      ELSE [threw |-> FALSE, cls |-> <<>>]

\* localStorage step: threw when getItem throws (no inner try around it)
StorageStep(ls, lsm) ==
    LET got == GetItem(ls, lsm)
    IN  IF got.threw THEN [threw |-> TRUE, cls |-> <<>>]
        ELSE IF got.raw = <<>> THEN [threw |-> FALSE, cls |-> <<>>]
        ELSE LET parsed == JSONParse(got.raw[1])
             IN  IF parsed.kind = "throw" THEN [threw |-> FALSE, cls |-> <<>>]
                 ELSE IF parsed.mode = "default"
                      THEN [threw |-> FALSE, cls |-> <<ThemeDefault>>]
                 ELSE IF Truthy(parsed.mode) /\ Truthy(parsed.variant)
                      THEN [threw |-> FALSE,
                            cls |-> <<ThemeClass(parsed.mode, parsed.variant)>>]
                 ELSE [threw |-> FALSE, cls |-> <<>>]

\* Faulty variant: the body without the guard on an already classed root
ScriptBodyNoGuard(classes, jar, on, ls, lsm) ==
    LET c == CookieStep(jar, on)
    IN  IF c.threw THEN [threw |-> TRUE, classes |-> classes]
        ELSE IF c.cls # <<>>
             THEN [threw |-> FALSE, classes |-> classes \cup {c.cls[1]}]
        ELSE LET s == StorageStep(ls, lsm)
             IN  IF s.threw THEN [threw |-> TRUE, classes |-> classes]
                 ELSE IF s.cls # <<>>
                      THEN [threw |-> FALSE, classes |-> classes \cup {s.cls[1]}]
                 ELSE [threw |-> FALSE, classes |-> classes \cup {ThemeDefault}]

\* The body inside the outer try
ScriptBody(classes, jar, on, ls, lsm) ==
    IF classes # {} THEN [threw |-> FALSE, classes |-> classes]
    ELSE LET c == CookieStep(jar, on)
         IN  IF c.threw THEN [threw |-> TRUE, classes |-> classes]
             ELSE IF c.cls # <<>>
                  THEN [threw |-> FALSE, classes |-> classes \cup {c.cls[1]}]
             ELSE LET s == StorageStep(ls, lsm)
                  IN  IF s.threw THEN [threw |-> TRUE, classes |-> classes]
                      ELSE IF s.cls # <<>>
                           THEN [threw |-> FALSE, classes |-> classes \cup {s.cls[1]}]
                      ELSE [threw |-> FALSE, classes |-> classes \cup {ThemeDefault}]

\* The whole script: the outer catch swallows whatever the body throws
PreHydrationScript(classes, jar, on, ls, lsm) ==
    LET r == ScriptBody(classes, jar, on, ls, lsm)
    IN  IF r.threw THEN [threw |-> FALSE, classes |-> r.classes] ELSE r

----------------------------------------------------------------------------
(* The read helpers and the state initializers of the two controllers *)

\* readStored: the parsed item, or null when there is none or anything throws
readStored(ls, lsm) ==
    LET got == GetItem(ls, lsm)
    IN  IF got.threw THEN NullVal
        ELSE IF got.raw = <<>> THEN NullVal
        ELSE LET parsed == JSONParse(got.raw[1])
             IN  IF parsed.kind = "throw" THEN NullVal ELSE parsed

\* readCookie: the parsed cookie, or null when there is none or anything throws
readCookie(jar, on) ==
    LET themeCookie == FindThemeCookie(DocumentCookie(jar, on))
    IN  IF themeCookie = <<>> THEN NullVal
        ELSE LET parsed == JSONParse(decodeURIComponent(themeCookie[1][2]))
             IN  IF parsed.kind = "throw" THEN NullVal ELSE parsed

\* Faulty variant: DAY_END taken as inclusive
DayBucketInclusiveEnd(h) == IF h >= DAY_START /\ h <= DAY_END THEN "day" ELSE "night"

DayBucket(h) == IF h >= DAY_START /\ h < DAY_END THEN "day" ELSE "night"
OSVariant(os) == IF os = "dark" THEN "dark" ELSE "light"

\* Controller with a default theme: what the stores give for mode and for
\* variant, <<>> when the initializer goes on to the clock or the OS signal
ModeFromStores(stored, c) ==
    IF TruthyVal(stored) /\ Truthy(stored.mode) /\ stored.mode # "default"
    THEN <<stored.mode>>
    ELSE IF TruthyVal(c) /\ Truthy(c.mode) /\ c.mode # "default"
    THEN <<c.mode>>
    ELSE <<>>

VariantFromStores(stored, c) ==
    IF TruthyVal(stored) /\ Truthy(stored.variant) /\ stored.mode # "default"
    THEN <<stored.variant>>
    ELSE IF TruthyVal(c) /\ Truthy(c.variant) /\ c.mode # "default"
    THEN <<c.variant>>
    ELSE <<>>

\* Faulty variant: the isDefault initializer without its look at the root class
IsDefaultInitStoresOnly(stored, c, classes) ==
    IF TruthyVal(stored) /\ stored.mode = "default" THEN TRUE
    ELSE IF TruthyVal(c) /\ c.mode = "default" THEN TRUE
    ELSE FALSE

\* Faulty variant: the isDefault initializer taking any class on the root for
\* the default theme
IsDefaultInitAnyClass(stored, c, classes) ==
    IF TruthyVal(stored) /\ stored.mode = "default" THEN TRUE
    ELSE IF TruthyVal(c) /\ c.mode = "default" THEN TRUE
    ELSE IF classes # {} THEN TRUE
    ELSE FALSE

IsDefaultInit(stored, c, classes) ==
    IF TruthyVal(stored) /\ stored.mode = "default" THEN TRUE
    ELSE IF TruthyVal(c) /\ c.mode = "default" THEN TRUE
    ELSE IF ThemeDefault \in classes THEN TRUE
    ELSE FALSE

\* Controller without a default theme
PlainModeFromStores(stored, c) ==
    IF TruthyVal(stored) /\ Truthy(stored.mode) THEN <<stored.mode>>
    ELSE IF TruthyVal(c) /\ Truthy(c.mode) THEN <<c.mode>>
    ELSE <<>>

PlainVariantFromStores(stored, c) ==
    IF TruthyVal(stored) /\ Truthy(stored.variant) THEN <<stored.variant>>
    ELSE IF TruthyVal(c) /\ Truthy(c.variant) THEN <<c.variant>>
    ELSE <<>>

\* The useState initializers, given the clock and OS reading they may consult
ModeInit(b, stored, c, h) ==
    LET got == IF b = "default" THEN ModeFromStores(stored, c)
               ELSE PlainModeFromStores(stored, c)
    IN  IF got # <<>> THEN got[1] ELSE DayBucket(h[1])

VariantInit(b, stored, c, os) ==
    LET got == IF b = "default" THEN VariantFromStores(stored, c)
               ELSE PlainVariantFromStores(stored, c)
    IN  IF got # <<>> THEN got[1] ELSE OSVariant(os)

\* Which readings the initializers take: the clock and the OS signal are
\* read only when the stores give nothing
HourReadings(b, stored, c) ==
    IF (IF b = "default" THEN ModeFromStores(stored, c)
        ELSE PlainModeFromStores(stored, c)) # <<>>
    THEN {<<>>} ELSE {<<h>> : h \in Hours}

OSReadings(b, stored, c) ==
    IF (IF b = "default" THEN VariantFromStores(stored, c)
        ELSE PlainVariantFromStores(stored, c)) # <<>>
    THEN {Unread} ELSE OSSignals

----------------------------------------------------------------------------
(* The effect and the toggles *)

\* Faulty variant: the old theme- classes are left on the root
ApplyClassKeepOld(classes, m, v, d) ==
    classes \cup {IF d THEN ThemeDefault ELSE ThemeClass(m, v)}

\* applyClass: every theme- class is removed, then the one of the state added
ApplyClass(classes, m, v, d) ==
    (classes \ ThemeClassesOf(classes))
    \cup {IF d THEN ThemeDefault ELSE ThemeClass(m, v)}

\* applyClass of the controller without a default theme
PlainApplyClass(classes, m, v) ==
    (classes \ ThemeClassesOf(classes)) \cup {ThemeClass(m, v)}

\* Faulty variant: the default marker is never persisted
PayloadNoMarker(m, v, d) == Obj(m, v)

\* What the effect persists
Payload(m, v, d) == IF d THEN Obj("default", Undef) ELSE Obj(m, v)

\* Faulty variant: both writes in one try block, so a failed setItem skips
\* the cookie write
PersistWritesOneTry(ls, lsm, jar, on, text) ==
    IF lsm # "ok" THEN [storage |-> ls, cookie |-> jar]
    ELSE [storage |-> SetItem(ls, lsm, text),
          cookie |-> SetCookie(jar, on, encodeURIComponent(text))]

\* The two writes of the effect, each in its own try/catch
PersistWrites(ls, lsm, jar, on, text) ==
    [storage |-> SetItem(ls, lsm, text),
     cookie |-> SetCookie(jar, on, encodeURIComponent(text))]

FlipMode(m) == IF m = "day" THEN "night" ELSE "day"
FlipVariant(v) == IF v = "light" THEN "dark" ELSE "light"

----------------------------------------------------------------------------
(* What the browser may hold when a page view starts *)

StoredObjects ==
    {Obj(m, v) : m \in {"day", "night"}, v \in {"light", "dark"}}
    \cup {Obj("default", Undef), Obj("default", "dark"),
          Obj("dusk", "sepia"), Obj("day", Undef)}

StoredTexts == {Malformed} \cup {JSONStringify(o) : o \in StoredObjects}

\* The class list of <html> as the page arrives: the markup gives it no
\* class; something else on the page may have added one of its own.
InitialRoots == {{}, {OtherClass}}

Init ==
    /\ build \in {"default", "plain"}
    /\ pc = "fresh"
    /\ root \in InitialRoots
    /\ lsMode \in {"ok", "readonly", "blocked"}
    /\ storage \in (IF lsMode = "blocked" THEN {<<>>}
                    ELSE {<<>>} \cup {<<t>> : t \in StoredTexts})
    /\ cookiesOn \in BOOLEAN
    /\ cookie \in (IF cookiesOn
                   THEN {<<>>} \cup {<<encodeURIComponent(t)>> : t \in StoredTexts}
                   ELSE {<<>>})
    /\ mode = Unmounted
    /\ variant = Unmounted
    /\ isDefault = FALSE
    /\ prevRef = NullVal
    /\ hour = <<>>
    /\ osDark = Unread
    /\ uncaught = FALSE
    /\ lastOp = "load"
    /\ entered = {}
    /\ before = {}
    /\ tabs = <<>>
    /\ settled = {}

----------------------------------------------------------------------------
(* Steps of a page view *)

\* The inline script runs; a re-entrant execution runs it again.
RunResolver ==
    /\ UNCHANGED <<tabs, settled>>
    /\ pc \in {"fresh", "resolved"}
    /\ LET r == PreHydrationScript(root, cookie, cookiesOn, storage, lsMode)
       IN  /\ root' = r.classes
           /\ uncaught' = (uncaught \/ r.threw)
    /\ pc' = "resolved"
    /\ lastOp' = "resolver"
    /\ UNCHANGED <<build, cookie, storage, lsMode, cookiesOn, mode, variant,
                   isDefault, prevRef, hour, osDark, entered, before>>

\* ThemeProvider renders for the first time: the three initializers run.
Mount ==
    /\ UNCHANGED <<tabs, settled>>
    /\ pc = "resolved"
    /\ LET stored == readStored(storage, lsMode)
           c == readCookie(cookie, cookiesOn)
       IN  \E h \in HourReadings(build, stored, c), os \in OSReadings(build, stored, c) :
               /\ mode' = ModeInit(build, stored, c, h)
               /\ variant' = VariantInit(build, stored, c, os)
               /\ isDefault' = IF build = "default"
                               THEN IsDefaultInit(stored, c, root) ELSE FALSE
               /\ hour' = h
               /\ osDark' = os
               /\ uncaught' = (uncaught \/ stored.kind = "throw" \/ c.kind = "throw")
    /\ prevRef' = NullVal
    /\ pc' = "effect"
    /\ lastOp' = "mount"
    /\ UNCHANGED <<build, root, cookie, storage, lsMode, cookiesOn, entered, before>>

\* Faulty variant: the effect with the dependency list [mode, variant], which
\* does not run after a change of isDefault alone
EffectWithoutIsDefaultDep ==
    /\ UNCHANGED <<tabs, settled>>
    /\ pc = "effect"
    /\ lastOp # "toggleDefault"
    /\ root' = IF build = "default" THEN ApplyClass(root, mode, variant, isDefault)
               ELSE PlainApplyClass(root, mode, variant)
    /\ LET w == PersistWrites(storage, lsMode, cookie, cookiesOn,
                              JSONStringify(Payload(mode, variant, isDefault)))
       IN  /\ storage' = w.storage
           /\ cookie' = w.cookie
    /\ pc' = "idle"
    /\ lastOp' = "effect"
    /\ UNCHANGED <<build, lsMode, cookiesOn, mode, variant, isDefault, prevRef,
                   hour, osDark, uncaught, entered, before>>

\* The effect on [mode, variant, isDefault]: class swap, then the two writes,
\* each in its own try/catch.
Effect ==
    /\ UNCHANGED <<tabs, settled>>
    /\ pc = "effect"
    /\ root' = IF build = "default" THEN ApplyClass(root, mode, variant, isDefault)
               ELSE PlainApplyClass(root, mode, variant)
    /\ LET w == PersistWrites(storage, lsMode, cookie, cookiesOn,
                              JSONStringify(Payload(mode, variant, isDefault)))
       IN  /\ storage' = w.storage
           /\ cookie' = w.cookie
    /\ pc' = "idle"
    /\ lastOp' = "effect"
    /\ UNCHANGED <<build, lsMode, cookiesOn, mode, variant, isDefault, prevRef,
                   hour, osDark, uncaught, entered, before>>

\* Faulty variant: the toggles without their isDefault guard
LockedNever == FALSE

\* The guard of toggleMode and toggleVariant: if (isDefault) return
Locked == build = "default" /\ isDefault

toggleMode ==
    /\ UNCHANGED <<tabs, settled>>
    /\ pc = "idle"
    /\ lastOp' = "toggleMode"
    /\ IF Locked
       THEN UNCHANGED <<build, pc, root, cookie, storage, lsMode, cookiesOn, mode,
                        variant, isDefault, prevRef, hour, osDark, uncaught,
                        entered, before>>
       ELSE /\ mode' = FlipMode(mode)
            /\ pc' = "effect"
            /\ hour' = <<>>
            /\ osDark' = Unread
            /\ entered' = {}
            /\ before' = {}
            /\ UNCHANGED <<build, root, cookie, storage, lsMode, cookiesOn,
                           variant, isDefault, prevRef, uncaught>>

toggleVariant ==
    /\ UNCHANGED <<tabs, settled>>
    /\ pc = "idle"
    /\ lastOp' = "toggleVariant"
    /\ IF Locked
       THEN UNCHANGED <<build, pc, root, cookie, storage, lsMode, cookiesOn, mode,
                        variant, isDefault, prevRef, hour, osDark, uncaught,
                        entered, before>>
       ELSE /\ variant' = FlipVariant(variant)
            /\ pc' = "effect"
            /\ hour' = <<>>
            /\ osDark' = Unread
            /\ entered' = {}
            /\ before' = {}
            /\ UNCHANGED <<build, root, cookie, storage, lsMode, cookiesOn,
                           mode, isDefault, prevRef, uncaught>>

\* Faulty variant: undo falls back to the hardcoded day/light instead of the
\* snapshot
UndoToFallback(prev, m, v) == Obj("day", "light")

\* Faulty variant: undo without a snapshot resets to the hardcoded day/light
UndoTargetResetWithoutSnapshot(prev, m, v) ==
    IF prev # NullVal THEN Obj(prev.mode, prev.variant) ELSE Obj("day", "light")

\* What undo restores: the snapshot when there is one, else the state as it is
UndoTarget(prev, m, v) == IF prev # NullVal THEN Obj(prev.mode, prev.variant) ELSE Obj(m, v)

toggleDefault ==
    /\ UNCHANGED <<tabs, settled>>
    /\ build = "default"
    /\ pc = "idle"
    /\ lastOp' = "toggleDefault"
    /\ IF ~isDefault
       THEN /\ prevRef' = Obj(mode, variant)
            /\ isDefault' = TRUE
            /\ entered' = {[mode |-> mode, variant |-> variant, root |-> root,
                            cookie |-> cookie, storage |-> storage]}
            /\ UNCHANGED <<mode, variant>>
       ELSE /\ mode' = UndoTarget(prevRef, mode, variant).mode
            /\ variant' = UndoTarget(prevRef, mode, variant).variant
            /\ prevRef' = NullVal
            /\ isDefault' = FALSE
            /\ UNCHANGED entered
    /\ pc' = "effect"
    /\ hour' = <<>>
    /\ osDark' = Unread
    /\ before' = {}
    /\ UNCHANGED <<build, root, cookie, storage, lsMode, cookiesOn, uncaught>>

\* The user reloads the page: the controller state is gone, the cookie and
\* the storage item stay.
Reload ==
    /\ UNCHANGED <<tabs, settled>>
    /\ pc = "idle"
    /\ pc' = "fresh"
    /\ root' \in InitialRoots
    /\ mode' = Unmounted
    /\ variant' = Unmounted
    /\ isDefault' = FALSE
    /\ prevRef' = NullVal
    /\ hour' = <<>>
    /\ osDark' = Unread
    /\ lastOp' = "load"
    /\ entered' = {}
    /\ before' = {[mode |-> mode, variant |-> variant, isDefault |-> isDefault]}
    /\ UNCHANGED <<build, cookie, storage, lsMode, cookiesOn, uncaught>>

Next ==
    \/ RunResolver
    \/ Mount
    \/ Effect
    \/ toggleMode
    \/ toggleVariant
    \/ toggleDefault
    \/ Reload

Spec == Init /\ [][Next]_vars

\* React runs the effect of a committed render: a scheduled effect is not
\* left waiting for ever.
FairSpec == Spec /\ WF_vars(Effect)

----------------------------------------------------------------------------
(* Two tabs of the controller with a default theme, open on the same cookie
   and the same storage item. Each tab runs its handlers and its effect to
   completion on its own thread; the tabs are separate documents, so between
   the two writes of one tab's effect another tab may write. *)

Tabs == {1, 2}

\* A mounted tab whose effect has run: its root has the class of its state
TabAt(m, v, d) ==
    [pc |-> "idle", root |-> ApplyClass({}, m, v, d), mode |-> m, variant |-> v,
     isDefault |-> d, prevRef |-> NullVal, raced |-> FALSE]

\* Both tabs were loaded from stores holding one record and have run their
\* first effect; a tab mounted into default has the mode and variant its
\* clock and OS gave it.
TabsInit ==
    /\ build = "default"
    /\ pc = "tabs"
    /\ root = {}
    /\ lsMode = "ok"
    /\ cookiesOn = TRUE
    /\ \E m0 \in {"day", "night"}, v0 \in {"light", "dark"}, d0 \in BOOLEAN :
           /\ storage = <<JSONStringify(Payload(m0, v0, d0))>>
           /\ cookie = <<encodeURIComponent(JSONStringify(Payload(m0, v0, d0)))>>
           /\ tabs \in [Tabs -> {TabAt(m, v, d0) :
                                    m \in (IF d0 THEN {"day", "night"} ELSE {m0}),
                                    v \in (IF d0 THEN {"light", "dark"} ELSE {v0})}]
    /\ mode = Unmounted
    /\ variant = Unmounted
    /\ isDefault = FALSE
    /\ prevRef = NullVal
    /\ hour = <<>>
    /\ osDark = Unread
    /\ uncaught = FALSE
    /\ lastOp = "load"
    /\ entered = {}
    /\ before = {}
    /\ settled = {}

\* The single page view stands still while the two tabs run
PageViewUnchanged ==
    UNCHANGED <<build, pc, root, lsMode, cookiesOn, mode, variant, isDefault,
                prevRef, hour, osDark, uncaught, lastOp, entered, before>>

\* A write by tab t falls between the two writes of every tab that has done
\* its storage write and not yet its cookie write
MarkRaced(t, f) ==
    [u \in Tabs |-> IF u # t /\ f[u].pc = "cookieWrite"
                    THEN [f[u] EXCEPT !.raced = TRUE] ELSE f[u]]

TabToggleMode(t) ==
    /\ tabs[t].pc = "idle"
    /\ tabs' = IF tabs[t].isDefault THEN tabs
               ELSE [tabs EXCEPT ![t] = [@ EXCEPT !.mode = FlipMode(@), !.pc = "effect"]]
    /\ UNCHANGED <<cookie, storage, settled>>
    /\ PageViewUnchanged

TabToggleVariant(t) ==
    /\ tabs[t].pc = "idle"
    /\ tabs' = IF tabs[t].isDefault THEN tabs
               ELSE [tabs EXCEPT ![t] = [@ EXCEPT !.variant = FlipVariant(@), !.pc = "effect"]]
    /\ UNCHANGED <<cookie, storage, settled>>
    /\ PageViewUnchanged

TabToggleDefault(t) ==
    /\ tabs[t].pc = "idle"
    /\ LET s == tabs[t]
           target == UndoTarget(s.prevRef, s.mode, s.variant)
       IN  tabs' = [tabs EXCEPT ![t] =
                       IF ~s.isDefault
                       THEN [s EXCEPT !.prevRef = Obj(s.mode, s.variant),
                                      !.isDefault = TRUE, !.pc = "effect"]
                       ELSE [s EXCEPT !.mode = target.mode, !.variant = target.variant,
                                      !.prevRef = NullVal, !.isDefault = FALSE,
                                      !.pc = "effect"]]
    /\ UNCHANGED <<cookie, storage, settled>>
    /\ PageViewUnchanged

\* The effect of tab t up to its storage write: class swap, then setItem
TabEffectStorage(t) ==
    /\ tabs[t].pc = "effect"
    /\ LET s == tabs[t]
           w == PersistWrites(storage, lsMode, cookie, cookiesOn,
                              JSONStringify(Payload(s.mode, s.variant, s.isDefault)))
       IN  /\ storage' = w.storage
           /\ tabs' = MarkRaced(t, [tabs EXCEPT ![t] =
                          [s EXCEPT !.root = ApplyClass(s.root, s.mode, s.variant, s.isDefault),
                                    !.pc = "cookieWrite", !.raced = FALSE]])
    /\ settled' = {}
    /\ UNCHANGED cookie
    /\ PageViewUnchanged

\* The rest of the effect of tab t: the cookie write
TabEffectCookie(t) ==
    /\ tabs[t].pc = "cookieWrite"
    /\ LET s == tabs[t]
           w == PersistWrites(storage, lsMode, cookie, cookiesOn,
                              JSONStringify(Payload(s.mode, s.variant, s.isDefault)))
       IN  /\ cookie' = w.cookie
           /\ tabs' = MarkRaced(t, [tabs EXCEPT ![t] = [s EXCEPT !.pc = "idle"]])
           /\ settled' = {[tab |-> t, mode |-> s.mode, variant |-> s.variant,
                           isDefault |-> s.isDefault, raced |-> s.raced]}
    /\ UNCHANGED storage
    /\ PageViewUnchanged

TabsNext ==
    \E t \in Tabs :
        \/ TabToggleMode(t)
        \/ TabToggleVariant(t)
        \/ TabToggleDefault(t)
        \/ TabEffectStorage(t)
        \/ TabEffectCookie(t)

TabsSpec == TabsInit /\ [][TabsNext]_vars

----------------------------------------------------------------------------
(* Properties *)

\* The theme class the controller state stands for
StateClass == IF isDefault THEN ThemeDefault ELSE ThemeClass(mode, variant)

\* C1: in the controller with a default theme, while isDefault is true a
\* toggleMode or toggleVariant changes neither mode, variant, isDefault, the
\* root class nor the two persisted records, and schedules no effect.
C1_LockedTogglesChangeNothing ==
    [][(build = "default" /\ isDefault /\ lastOp' \in {"toggleMode", "toggleVariant"})
       => UNCHANGED <<mode, variant, isDefault, root, cookie, storage, pc>>]_vars

C1_Witness ==
    /\ build = "default"
    /\ isDefault
    /\ pc = "idle"
    /\ lastOp \in {"toggleMode", "toggleVariant"}

\* C2: entering default from a non-default state and undoing it, whatever
\* toggleMode/toggleVariant calls came in between, gives back the mode and
\* variant held at entry with isDefault false, and once the effect has run
\* the root class list, the cookie and the storage item are those held at
\* entry.
C2_UndoRestoresEntryState ==
    (build = "default" /\ entered # {} /\ ~isDefault /\ pc \in {"effect", "idle"})
    => \A e \in entered :
          /\ mode = e.mode
          /\ variant = e.variant
          /\ pc = "idle" => (root = e.root /\ cookie = e.cookie /\ storage = e.storage)

C2_Witness ==
    /\ build = "default"
    /\ entered # {}
    /\ ~isDefault
    /\ pc = "idle"
    /\ lastOp = "effect"
    /\ mode = "night"
    /\ variant = "dark"
    /\ lsMode = "ok"
    /\ cookiesOn

\* C3: once the effect has run for the current state, the root carries
\* exactly one class that starts with theme-, and it is theme-default when
\* isDefault is true and theme-<mode>-<variant> otherwise.
C3_OneThemeClassAfterEffect ==
    pc = "idle" => ThemeClassesOf(root) = {StateClass}

\* The script had classed the root with something else than the class the
\* first effect of the plain controller then applied.
C3_Witness ==
    /\ pc = "idle"
    /\ lastOp = "effect"
    /\ build = "plain"
    /\ lsMode = "ok"
    /\ hour # <<>>
    /\ root = {ThemeClass("day", "light")}

\* C4: when both writes of the effect succeed, a reload (script, then mount)
\* comes back to the state the page was left in: the same mode and variant
\* with isDefault false, or isDefault true with theme-default as the class
\* after the first effect.
C4_ReloadRoundTrip ==
    (before # {} /\ lsMode = "ok" /\ cookiesOn /\ pc \in {"effect", "idle"})
    => \A b \in before :
          IF b.isDefault
          THEN isDefault /\ (pc = "idle" => ThemeClassesOf(root) = {ThemeDefault})
          ELSE ~isDefault /\ mode = b.mode /\ variant = b.variant

C4_Witness ==
    /\ before = {[mode |-> "night", variant |-> "dark", isDefault |-> TRUE]}
    /\ lsMode = "ok"
    /\ cookiesOn
    /\ pc = "idle"
    /\ lastOp = "effect"
    /\ isDefault

\* A valid record: {mode, variant} with mode in day/night and variant in
\* light/dark, or {mode: default}
PairRecord(o) ==
    o.kind = "object" /\ o.mode \in {"day", "night"} /\ o.variant \in {"light", "dark"}
DefaultRecord(o) == o.kind = "object" /\ o.mode = "default" /\ o.variant = Undef
ValidRecord(o) == PairRecord(o) \/ DefaultRecord(o)
RecordClass(o) == IF o.mode = "default" THEN ThemeDefault ELSE ThemeClass(o.mode, o.variant)

\* What the cookie and the storage item hold, as records
CookieRecord == readCookie(cookie, cookiesOn)
StorageRecord == readStored(storage, lsMode)

\* The controller state is the one record o stands for
StateIs(o) ==
    IF o.mode = "default" THEN isDefault
    ELSE ~isDefault /\ mode = o.mode /\ variant = o.variant

\* The script ran on a root that carried no class when the page arrived
\* (the script adds theme- classes only, and a page arrives with none)
UnclassedAtLoad == root \ ThemeClassesOf(root) = {}

\* C5: when the cookie and the storage item hold two different valid
\* records at mount, the controller starts in the state of the cookie record.
C5_CookieRecordWinsAtMount ==
    (/\ lastOp = "mount"
     /\ ValidRecord(CookieRecord)
     /\ ValidRecord(StorageRecord)
     /\ build = "plain" => (PairRecord(CookieRecord) /\ PairRecord(StorageRecord))
     /\ CookieRecord # StorageRecord)
    => StateIs(CookieRecord)

\* C6: for every valid record in the cookie and any content of the storage
\* item, the script run on an unclassed root leaves exactly the class of the
\* cookie record on it.
C6_ResolverCookieWins ==
    (/\ lastOp = "resolver"
     /\ UnclassedAtLoad
     /\ lsMode = "ok"
     /\ ValidRecord(CookieRecord))
    => root = {RecordClass(CookieRecord)}

\* C7: the script leaves an already classed root as it is, whatever cookie
\* and storage hold, and a second run right after a run changes nothing.
C7_ResolverIdempotent ==
    /\ [][(lastOp' = "resolver" /\ root # {}) => root' = root]_vars
    /\ [](lastOp = "resolver"
          => PreHydrationScript(root, cookie, cookiesOn, storage, lsMode).classes = root)

C7_Witness ==
    /\ lastOp = "resolver"
    /\ root = {OtherClass}
    /\ cookie = <<encodeURIComponent(JSONStringify(Obj("night", "dark")))>>

\* The text the effect is to persist for the current state
StateText ==
    JSONStringify(IF isDefault THEN Obj("default", Undef) ELSE Obj(mode, variant))

\* C8: when the storage write, the cookie write or both fail, the effect
\* leaves mode, variant and isDefault as the toggle set them, the root has
\* the class of the state, and the write that can succeed has been done.
C8_PersistenceFailureIsContained ==
    /\ [][lastOp' = "effect" => UNCHANGED <<mode, variant, isDefault>>]_vars
    /\ []((pc = "idle" /\ (lsMode # "ok" \/ ~cookiesOn))
          => /\ ThemeClassesOf(root) = {StateClass}
             /\ lsMode = "ok" => storage = <<StateText>>
             /\ cookiesOn => cookie = <<encodeURIComponent(StateText)>>)

C8_Witness ==
    /\ pc = "idle"
    /\ lastOp = "effect"
    /\ lsMode = "readonly"
    /\ cookiesOn
    /\ storage = <<JSONStringify(Obj("day", "light"))>>
    /\ mode = "night"
    /\ variant = "dark"
    /\ ~isDefault
    /\ cookie = <<encodeURIComponent(JSONStringify(Obj("night", "dark")))>>
    /\ ThemeClass("night", "dark") \in root

\* The stores with a malformed value taken out
CleanStorage == IF storage = <<Malformed>> THEN <<>> ELSE storage
CleanCookie == IF cookie = <<encodeURIComponent(Malformed)>> THEN <<>> ELSE cookie

\* C9: a malformed cookie or storage value counts as absent for the script
\* and for the controller, no error escapes, and with one source malformed
\* and the other holding a valid record the theme is that of the valid record.
C9_MalformedIsAbsent ==
    /\ ~uncaught
    /\ (lastOp = "resolver" /\ UnclassedAtLoad)
       => /\ root = PreHydrationScript({}, CleanCookie, cookiesOn,
                                       CleanStorage, lsMode).classes
          /\ (cookie # CleanCookie /\ lsMode = "ok" /\ ValidRecord(StorageRecord))
             => root = {RecordClass(StorageRecord)}
          /\ (storage # CleanStorage /\ ValidRecord(CookieRecord))
             => root = {RecordClass(CookieRecord)}
    /\ lastOp = "mount"
       => LET stored == readStored(CleanStorage, lsMode)
              c == readCookie(CleanCookie, cookiesOn)
          IN  /\ hour \in HourReadings(build, stored, c)
              /\ osDark \in OSReadings(build, stored, c)
              /\ mode = ModeInit(build, stored, c, hour)
              /\ variant = VariantInit(build, stored, c, osDark)
              /\ isDefault = (build = "default" /\ IsDefaultInit(stored, c, root))
              /\ (cookie # CleanCookie /\ PairRecord(StorageRecord))
                 => StateIs(StorageRecord)
              /\ (storage # CleanStorage /\ PairRecord(CookieRecord))
                 => StateIs(CookieRecord)
              /\ (build = "default" /\ DefaultRecord(StorageRecord)
                  /\ cookie # CleanCookie) => isDefault
              /\ (build = "default" /\ DefaultRecord(CookieRecord)
                  /\ storage # CleanStorage) => isDefault

C9_Witness ==
    /\ lastOp = "mount"
    /\ cookie = <<encodeURIComponent(Malformed)>>
    /\ storage = <<JSONStringify(Obj("night", "dark"))>>
    /\ root = {ThemeClass("night", "dark")}
    /\ mode = "night"
    /\ variant = "dark"
    /\ ~isDefault

\* C10: mounted with no cookie and no storage item on a root without a theme
\* class, the controller's first effect applies theme-<bucket>-<variant>,
\* bucket day iff 6 <= hour < 19 and variant dark iff the OS signal says dark.
C10_ControllerFallback ==
    [][(/\ lastOp = "mount"
        /\ lastOp' = "effect"
        /\ cookie = <<>>
        /\ storage = <<>>
        /\ ThemeClassesOf(root) = {})
       => /\ hour # <<>>
          /\ hour[1] \in Hours
          /\ osDark \in OSSignals
          /\ ThemeClassesOf(root') =
                {ThemeClass(IF 6 <= hour[1] /\ hour[1] < 19 THEN "day" ELSE "night",
                            IF osDark = "dark" THEN "dark" ELSE "light")}]_vars

C10_Witness ==
    /\ build = "default"
    /\ lastOp = "effect"
    /\ hour = <<19>>
    /\ osDark = "unavailable"
    /\ lsMode = "readonly"
    /\ storage = <<>>
    /\ ~cookiesOn
    /\ cookie = <<>>
    /\ root = {OtherClass, ThemeClass("night", "light")}

\* A store content of the four kinds: absent or malformed (both read as
\* null), a valid {mode, variant}, or {mode: default}
NullOrValid(o) == o = NullVal \/ ValidRecord(o)

\* C11: for every cookie and storage content that is absent, malformed, a
\* valid {mode, variant} or {mode: default}, the theme class the script added
\* to an unclassed root is the class the controller's first effect applies.
C11_ScriptAndMountAgree ==
    [][(/\ build = "default"
        /\ lastOp = "mount"
        /\ lastOp' = "effect"
        /\ UnclassedAtLoad
        /\ lsMode = "ok"
        /\ cookiesOn
        /\ NullOrValid(CookieRecord)
        /\ NullOrValid(StorageRecord))
       => ThemeClassesOf(root') = ThemeClassesOf(root)]_vars

\* C12: run on an unclassed root, the script ends with exactly one theme
\* class on it whatever fails (malformed cookie, malformed storage value,
\* storage access throwing), and with theme-default when no source gives a
\* record.
C12_ScriptAlwaysEndsOnTheme ==
    (lastOp = "resolver" /\ UnclassedAtLoad)
    => /\ Cardinality(ThemeClassesOf(root)) = 1
       /\ (CookieRecord = NullVal /\ StorageRecord = NullVal) => root = {ThemeDefault}

MountRootsHere ==
    {PreHydrationScript(r0, cookie, cookiesOn, storage, lsMode).classes : r0 \in InitialRoots}

\* The three initializers run on the cookie, storage, hour and OS signal of
\* this mount, with the root class list classes
MountOutcome(classes) ==
    LET stored == readStored(storage, lsMode)
        c == readCookie(cookie, cookiesOn)
    IN  [mode |-> ModeInit(build, stored, c, hour),
         variant |-> VariantInit(build, stored, c, osDark),
         isDefault |-> IF build = "default"
                       THEN IsDefaultInit(stored, c, classes) ELSE FALSE]

\* C14 as stated: a mount with the same cookie, storage, hour and OS signal
\* but another class list on the root gives the same mode, variant and
\* isDefault.
C14_MountIgnoresRootClass ==
    lastOp = "mount"
    => \A classes \in MountRootsHere :
           MountOutcome(classes) = [mode |-> mode, variant |-> variant,
                                    isDefault |-> isDefault]

\* C14, amended: a mount with the same cookie, storage, hour and OS signal
\* but another class list on the root gives the same mode and variant, and
\* the same isDefault when the two class lists agree on holding theme-default.
C14_MountReadsOnlyDefaultClass ==
    lastOp = "mount"
    => \A classes \in MountRootsHere :
           /\ MountOutcome(classes).mode = mode
           /\ MountOutcome(classes).variant = variant
           /\ (ThemeDefault \in classes <=> ThemeDefault \in root)
              => MountOutcome(classes).isDefault = isDefault

C14_Witness ==
    /\ lastOp = "mount"
    /\ build = "default"
    /\ root = {ThemeDefault}
    /\ isDefault
    /\ {OtherClass} \in MountRootsHere
    /\ ~MountOutcome({OtherClass}).isDefault
    /\ MountOutcome({OtherClass}).mode = mode
    /\ MountOutcome({OtherClass}).variant = variant

\* C15: the mount and every toggle that changes mode, variant or isDefault
\* schedules the effect, a scheduled effect eventually runs, and once it has
\* run with both writes able to succeed the storage item and the cookie hold
\* the record of the state ({mode: default} when isDefault, else {mode,
\* variant}) and the root has the class of that state.
C15_EffectFollowsEveryChange ==
    /\ [][(lastOp' # "load" /\ <<mode, variant, isDefault>>' # <<mode, variant, isDefault>>)
          => pc' = "effect"]_vars
    /\ (pc = "effect") ~> (pc = "idle" /\ lastOp = "effect")
    /\ []((lastOp = "effect" /\ lsMode = "ok" /\ cookiesOn)
          => /\ storage = <<StateText>>
             /\ cookie = <<encodeURIComponent(StateText)>>
             /\ ThemeClassesOf(root) = {StateClass})

\* The effect has run after an entry into default made by the toggle.
C15_Witness ==
    /\ pc = "idle"
    /\ lastOp = "effect"
    /\ build = "default"
    /\ entered # {}
    /\ isDefault
    /\ lsMode = "ok"
    /\ cookiesOn
    /\ storage = <<JSONStringify(Obj("default", Undef))>>
    /\ cookie = <<encodeURIComponent(JSONStringify(Obj("default", Undef)))>>
    /\ root = {ThemeDefault}

\* The five classes the stylesheet names
FiveClasses ==
    {ThemeClass(m, v) : m \in {"day", "night"}, v \in {"light", "dark"}} \cup {ThemeDefault}

\* C16: whatever parseable record the cookie and the storage item hold, the
\* theme class on the root, after the script, at mount and after any toggles,
\* is one of theme-day-light, theme-day-dark, theme-night-light,
\* theme-night-dark and theme-default, and the controller's mode is day or
\* night and its variant light or dark.
C16_ThemeClassIsOneOfFive ==
    /\ ThemeClassesOf(root) \subseteq FiveClasses
    /\ mode # Unmounted => (mode \in {"day", "night"} /\ variant \in {"light", "dark"})

\* C17: in a state that is not default, toggleMode takes day to night and
\* night to day and changes nothing else of the state, toggleVariant takes
\* light to dark and dark to light and changes nothing else (so the two
\* commute), a second application gives back the starting value, and neither
\* sets isDefault.
C17_TogglesCycleFourStates ==
    [][(pc = "idle" /\ ~isDefault)
       => /\ lastOp' = "toggleMode"
             => /\ {mode, mode'} = {"day", "night"}
                /\ FlipMode(mode') = mode
                /\ UNCHANGED <<variant, isDefault>>
          /\ lastOp' = "toggleVariant"
             => /\ {variant, variant'} = {"light", "dark"}
                /\ FlipVariant(variant') = variant
                /\ UNCHANGED <<mode, isDefault>>]_vars

\* C18: a toggleDefault made in default sets isDefault false and empties the
\* snapshot; when there was no snapshot (the controller mounted into default)
\* it leaves mode and variant as they were; and outside default the snapshot
\* is always empty, so no undo restores a snapshot of an earlier entry.
C18_UndoWithoutSnapshot ==
    /\ [][(build = "default" /\ pc = "idle" /\ isDefault /\ lastOp' = "toggleDefault")
          => /\ ~isDefault'
             /\ prevRef' = NullVal
             /\ prevRef = NullVal => UNCHANGED <<mode, variant>>]_vars
    /\ [](~isDefault => prevRef = NullVal)

\* Undo made in a page view that mounted into default, with a night/dark
\* state the initializers read.
C18_Witness ==
    /\ build = "default"
    /\ lastOp = "toggleDefault"
    /\ pc = "effect"
    /\ ~isDefault
    /\ entered = {}
    /\ prevRef = NullVal
    /\ mode = "night"
    /\ variant = "dark"

\* The initial states a page load started now can mount in: the script runs
\* on the class list the page arrives with, then the three initializers run
\* on the stores as they are, with any hour and OS signal they may read.
NewLoads ==
    LET stored == readStored(storage, lsMode)
        c == readCookie(cookie, cookiesOn)
    IN  {[mode |-> ModeInit(build, stored, c, h),
          variant |-> VariantInit(build, stored, c, os),
          isDefault |-> IsDefaultInit(stored, c,
                            PreHydrationScript(r0, cookie, cookiesOn, storage, lsMode).classes)] :
            r0 \in InitialRoots,
            h \in HourReadings(build, stored, c),
            os \in OSReadings(build, stored, c)}

\* An initial state is the state s: default when s is default, else the
\* mode and variant of s
SameState(n, s) ==
    IF s.isDefault THEN n.isDefault
    ELSE ~n.isDefault /\ n.mode = s.mode /\ n.variant = s.variant

\* C19 as stated: a page load that starts after a tab's effect has done both
\* its writes for state S, with no write by a tab since, mounts in state S;
\* and a new load differs from the state of an open tab only while that tab
\* has a write outstanding.
C19_NewLoadFollowsEveryTab ==
    /\ \A e \in settled : \A n \in NewLoads : SameState(n, e)
    /\ \A t \in DOMAIN tabs :
          (\E n \in NewLoads : ~SameState(n, tabs[t])) => tabs[t].pc # "idle"

\* C19, amended: a page load that starts after a tab's effect has done both
\* its writes for state S, with no write by any tab since, mounts in state S
\* when the other tab has not written between the two writes, and then in
\* the state of that tab while it stays idle; when the other tab has written
\* between them, it mounts with isDefault true if either store holds {mode:
\* default} and with the mode and variant of the storage record if that is
\* not a default record. (Nothing ties a new load to the state of the other
\* tab.)
C19_NewLoadFollowsLastWriter ==
    \A e \in settled :
        /\ ~e.raced
           => /\ \A n \in NewLoads : SameState(n, e)
              /\ tabs[e.tab].pc = "idle" => \A n \in NewLoads : SameState(n, tabs[e.tab])
        /\ e.raced
           => \A n \in NewLoads :
                  /\ n.isDefault <=> (StorageRecord.mode = "default" \/ CookieRecord.mode = "default")
                  /\ StorageRecord.mode # "default"
                     => (n.mode = StorageRecord.mode /\ n.variant = StorageRecord.variant)

\* Tab 1 has written night/dark after tab 2 wrote, tab 2 is idle in another
\* state, and every new load mounts in the state of tab 1.
C19_Witness ==
    /\ settled = {[tab |-> 1, mode |-> "night", variant |-> "dark",
                   isDefault |-> FALSE, raced |-> FALSE]}
    /\ tabs[1].pc = "idle"
    /\ tabs[2].pc = "idle"
    /\ tabs[2].isDefault
    /\ NewLoads = {[mode |-> "night", variant |-> "dark", isDefault |-> FALSE]}

====
